---- MODULE Spec2Model ----
(***************************************************************************)
(* A model of blackbone::MemBlock (src/BlackBone/Process/MemBlock.cpp):    *)
(* one handle to a region of memory of a foreign process, the operations   *)
(* on it, and the calls it sends to its collaborators (the process memory  *)
(* routines / native subsystem, and the driver).                           *)
(*                                                                         *)
(* Addresses and sizes are counted in bytes.  size_t is 32 or 64 bits wide *)
(* in the builds of the library; TLC has 32-bit signed integers, so the    *)
(* model computes the unsigned size modulo 2^SizeBits.  The addresses the  *)
(* model uses are far away from the end of the 64-bit ptr_t range, so      *)
(* pointer additions are exact.                                            *)
(***************************************************************************)
EXTENDS Integers, Sequences, FiniteSets, TLC

VARIABLES
    block,       \* the fields of the MemBlock: ptr, size, protection, own, physical, memory
    life,        \* "none": not constructed, "live", "dead": destroyed, "crashed"
    lastStatus,  \* the thread's last NTSTATUS value, read and written by LastNtStatus
    last,        \* what the last operation was given, sent to the collaborators and returned
    resetDone,   \* Reset has run on this handle
    released     \* the address of the block, if a free call has released it and no
                 \* allocation has handed it out since (a set of at most one address)

vars == <<block, life, lastStatus, last, resetDone, released>>

-----------------------------------------------------------------------------
(* Bounds of the model *)

\* width of size_t in the model
SizeBits == 16
\* largest block size, in half pages
MaxHalfPages == 3
\* how many pages past its 64K-aligned base a partial Free may move a block
MaxWalkPages == 2

-----------------------------------------------------------------------------
(* Values of the program *)

PageSize == 4096
STATUS_SUCCESS == 0
\* 0x40000003, an informational status: NT_SUCCESS holds for it
STATUS_IMAGE_NOT_AT_BASE == 1073741827
\* 0xC0000022 and 0xC00000C0 as the signed LONG that NTSTATUS is
STATUS_ACCESS_DENIED == -1073741790
STATUS_DEVICE_DOES_NOT_EXIST == -1073741632
MEM_DECOMMIT == 16384
MEM_RELEASE == 32768
PAGE_READONLY == 2
PAGE_READWRITE == 4
PAGE_EXECUTE_READ == 32
PAGE_EXECUTE_READWRITE == 64

SizeMod == 2 ^ SizeBits

\* NT_SUCCESS(status): the status is not negative
NT_SUCCESS(status) == status >= 0

\* Align(val, alignment): val rounded up to a multiple of alignment
Align(val, alignment) ==
    IF val % alignment = 0 THEN val ELSE ((val \div alignment) + 1) * alignment

\* CastProtection(prot, bDEP): with DEP off the executable protections lose
\* their execute right
CastProtection(prot, bDEP) ==
    IF bDEP THEN prot
    ELSE IF prot = PAGE_EXECUTE_READ THEN PAGE_READONLY
    ELSE IF prot = PAGE_EXECUTE_READWRITE THEN PAGE_READWRITE
    ELSE prot

\* unsigned subtraction of size_t
SizeSub(a, b) == (a - b + SizeMod) % SizeMod

-----------------------------------------------------------------------------
(* Inputs *)

\* the allocation granularity of the system: the bases it hands out are
\* multiples of it
Granularity == 65536
\* base addresses a caller asks for or passes to a constructor
Bases == {Granularity}
\* addresses the system chooses when asked to allocate at address 0
SystemChoices == {2 * Granularity}
\* block sizes: one page up to MaxHalfPages half pages, in steps of half a page
Sizes == {h * (PageSize \div 2) : h \in 2..MaxHalfPages}
\* sizes given to Free
FreeSizes == {0, 1, PageSize + 1}
Protections == {PAGE_READWRITE, PAGE_EXECUTE_READWRITE}
\* statuses a collaborator returns for protect, free, read and write
Statuses == {STATUS_SUCCESS, STATUS_ACCESS_DENIED}
\* offsets given to Read and Write, and the size
Offsets == {0, PageSize}
IoSize == 16
\* (offset, size) given to Protect
Ranges == {<<0, 0>>, <<0, PageSize>>, <<PageSize, PageSize>>}

-----------------------------------------------------------------------------
(* The collaborators *)

\* one call sent to a collaborator, with the status it returned and, for an
\* allocation, the address it left in the address parameter (0 for the other
\* calls); arg is the protection, the free type or the handleHoles flag
Call(to, fn, pid, addr, size, arg, status, out) ==
    [to |-> to, fn |-> fn, pid |-> pid, addr |-> addr, size |-> size,
     arg |-> arg, status |-> status, out |-> out]

\* what a collaborator does with a protect, free, read or write call: the
\* status it returns, and whether it also left that status in the thread's
\* last-status value (rec); the driver's calls return
\* STATUS_DEVICE_DOES_NOT_EXIST without recording it when the driver is not
\* loaded (see Asked)
Outcomes ==
    {[status |-> s, rec |-> TRUE] : s \in Statuses}
    \cup {[status |-> STATUS_DEVICE_DOES_NOT_EXIST, rec |-> FALSE]}

\* the answers to protect, read and write calls in the model: the status is
\* what these operations return, whatever the last-status value
Answers == {o \in Outcomes : o.rec}

\* what the native subsystem does with VirualAllocExT(addr, ...): on success
\* the address parameter holds the base of the region (addr itself when one
\* was asked for), on failure it holds 0
AllocOutcomes(addr) ==
    {[status |-> STATUS_ACCESS_DENIED, addr |-> 0, rec |-> TRUE]}
    \cup {[status |-> STATUS_SUCCESS, addr |-> IF addr # 0 THEN addr ELSE c, rec |-> TRUE] :
            c \in SystemChoices}

\* what mem->Query(ptr, &mbi) leaves in mbi, which starts zeroed
QueryOutcomes ==
    {[status |-> STATUS_ACCESS_DENIED, RegionSize |-> 0, Protect |-> 0]}
    \cup {[status |-> STATUS_SUCCESS, RegionSize |-> s, Protect |-> p] :
            s \in Sizes, p \in Protections}

\* the last-status value after a collaborator call with outcome o
Recorded(o, ls) == IF o.rec THEN o.status ELSE ls

\* the outcome standing for "no call was made"
NoCall == [status |-> STATUS_SUCCESS, rec |-> TRUE]
NoAlloc == [status |-> STATUS_SUCCESS, addr |-> 0, rec |-> FALSE]

-----------------------------------------------------------------------------
(* The block *)

MemBlock(ptr, size, prot, own, physical, memory) ==
    [ptr |-> ptr, size |-> size, protection |-> prot, own |-> own,
     physical |-> physical, memory |-> memory]

\* the members' default initialisers and MemBlock()
DefaultBlock == MemBlock(0, 0, 0, FALSE, FALSE, "nullptr")

NoArg == [size |-> 0, addr |-> 0, protection |-> 0]
Arg(size, addr, protection) == [size |-> size, addr |-> addr, protection |-> protection]

\* the result of an operation: the block afterwards, the calls sent, the value
\* returned, the last-status value, whether LastNtStatus(STATUS_IMAGE_NOT_AT_BASE)
\* was called, and whether the operation went through a null _memory
Result(b, calls, ret, ls, notice, crash) ==
    [block |-> b, calls |-> calls, ret |-> ret, lastStatus |-> ls,
     notice |-> notice, crash |-> crash]

-----------------------------------------------------------------------------
(* MemBlock::Free *)

\* FreeCall without the test of _physical
FreeCallToAccessor(b, size, status) ==
    Call("MemoryAccessor", "free", "none", b.ptr, size,
         IF size = 0 THEN MEM_RELEASE ELSE MEM_DECOMMIT, status, 0)

\* the call Free sends for the aligned size
FreeCall(b, size, status) ==
    IF b.physical
    THEN Call("PrivilegedChannel", "free", "pid", b.ptr, size, MEM_RELEASE, status, 0)
    ELSE Call("MemoryAccessor", "free", "none", b.ptr, size,
              IF size = 0 THEN MEM_RELEASE ELSE MEM_DECOMMIT, status, 0)

\* FreeUpdate with a full release that forgets to clear _protection
FreeUpdateKeepsProtection(b, size) ==
    IF size = 0
    THEN [b EXCEPT !.ptr = 0, !.size = 0]
    ELSE [b EXCEPT !.ptr = @ + size, !.size = SizeSub(@, size)]

\* the fields after the collaborator freed size bytes
FreeUpdate(b, size) ==
    IF size = 0
    THEN [b EXCEPT !.ptr = 0, !.size = 0, !.protection = 0]
    ELSE [b EXCEPT !.ptr = @ + size, !.size = SizeSub(@, size)]

\* Free(size) on block b, the collaborator answering o, the last status being ls
Free(b, size, o, ls) ==
    IF b.ptr # 0
    THEN IF b.memory = "nullptr"
         THEN Result(b, <<>>, 0, ls, FALSE, TRUE)
         ELSE LET asize == Align(size, PageSize)
                  ls1 == Recorded(o, ls)
                  calls == <<FreeCall(b, asize, o.status)>>
              IN  IF ~NT_SUCCESS(o.status)
                  THEN Result(b, calls, ls1, ls1, FALSE, FALSE)
                  ELSE Result(FreeUpdate(b, asize), calls, STATUS_SUCCESS, ls1, FALSE, FALSE)
    ELSE Result(b, <<>>, STATUS_SUCCESS, ls, FALSE, FALSE)

\* the collaborator answers only when it is called, and it is the driver that
\* returns a status without recording it
Asked(b, o) ==
    /\ b.ptr = 0 => o = NoCall
    /\ o.rec \/ b.physical

-----------------------------------------------------------------------------
(* MemBlock::~MemBlock *)

\* Destructor without the test of _own
DestructorIgnoresOwn(b, o, ls) == Free(b, 0, o, ls)

Destructor(b, o, ls) ==
    IF b.own THEN Free(b, 0, o, ls) ELSE Result(b, <<>>, 0, ls, FALSE, FALSE)

-----------------------------------------------------------------------------
(* MemBlock::Allocate *)

AllocCall(addr, size, prot, r) ==
    Call("MemoryAccessor", "allocate", "none", addr, size, prot, r.status, r.addr)

\* the block Allocate constructs: MemBlock(&process, desired64, size, protection)
Allocated(ptr, size, protection) ==
    MemBlock(ptr, size, protection, TRUE, FALSE, "process")

\* Allocate that records the relocation notice after every retry, also a
\* failed one
AllocateNoticeOnRetry(size, desired, protection, bDEP, r1, r2, ls) ==
    LET newProt == CastProtection(protection, bDEP)
        c1 == AllocCall(desired, size, newProt, r1)
        c2 == AllocCall(0, size, newProt, r2)
        ls1 == Recorded(r1, ls)
    IN  IF r1.status # STATUS_SUCCESS
        THEN Result(Allocated(IF r2.status = STATUS_SUCCESS THEN r2.addr ELSE 0,
                              size, protection),
                    <<c1, c2>>, r2.addr, STATUS_IMAGE_NOT_AT_BASE, TRUE, FALSE)
        ELSE Result(Allocated(r1.addr, size, protection), <<c1>>, r1.addr,
                    ls1, FALSE, FALSE)

\* Allocate that repeats the request at the desired address
AllocateRetriesAtDesired(size, desired, protection, bDEP, r1, r2, ls) ==
    LET newProt == CastProtection(protection, bDEP)
        c1 == AllocCall(desired, size, newProt, r1)
        c2 == AllocCall(desired, size, newProt, r2)
        ls1 == Recorded(r1, ls)
    IN  IF r1.status # STATUS_SUCCESS
        THEN IF r2.status = STATUS_SUCCESS
             THEN Result(Allocated(r2.addr, size, protection), <<c1, c2>>, r2.addr,
                         STATUS_IMAGE_NOT_AT_BASE, TRUE, FALSE)
             ELSE Result(Allocated(0, size, protection), <<c1, c2>>, 0,
                         Recorded(r2, ls1), FALSE, FALSE)
        ELSE Result(Allocated(r1.addr, size, protection), <<c1>>, r1.addr,
                    ls1, FALSE, FALSE)

\* Allocate(process, size, desired, protection), the native subsystem answering
\* r1 to the first request and r2 to the second
Allocate(size, desired, protection, bDEP, r1, r2, ls) ==
    LET newProt == CastProtection(protection, bDEP)
        c1 == AllocCall(desired, size, newProt, r1)
        c2 == AllocCall(0, size, newProt, r2)
        ls1 == Recorded(r1, ls)
    IN  IF r1.status # STATUS_SUCCESS
        THEN IF r2.status = STATUS_SUCCESS
             THEN Result(Allocated(r2.addr, size, protection), <<c1, c2>>, r2.addr,
                         STATUS_IMAGE_NOT_AT_BASE, TRUE, FALSE)
             ELSE Result(Allocated(0, size, protection), <<c1, c2>>, 0,
                         Recorded(r2, ls1), FALSE, FALSE)
        ELSE Result(Allocated(r1.addr, size, protection), <<c1>>, r1.addr,
                    ls1, FALSE, FALSE)

-----------------------------------------------------------------------------
(* MemBlock::Realloc *)

\* the fields after Realloc replaced the instance
Rebind(b, ptr, size, protection) ==
    [b EXCEPT !.ptr = ptr, !.size = size, !.protection = protection]

\* Realloc that releases the old region before it knows whether the new
\* allocation succeeded
ReallocFreesFirst(b, size, desired, protection, r1, r2, o, ls) ==
    IF b.memory = "nullptr"
    THEN Result(b, <<>>, 0, ls, FALSE, TRUE)
    ELSE LET f == Free(b, 0, o, ls)
             c1 == AllocCall(desired, size, protection, r1)
             c2 == AllocCall(0, size, protection, r2)
             retry == r1.addr = 0
             desired64 == IF retry THEN r2.addr ELSE r1.addr
             calls == f.calls \o (IF retry THEN <<c1, c2>> ELSE <<c1>>)
             notice == retry /\ r2.addr # 0
         IN  IF desired64 # 0
             THEN Result(Rebind(f.block, desired64, size, protection),
                         calls, desired64, f.lastStatus, notice, FALSE)
             ELSE Result(f.block, calls, desired64, f.lastStatus, notice, FALSE)

\* Realloc(size, desired, protection) on block b; o answers the Free of the
\* old region
Realloc(b, size, desired, protection, r1, r2, o, ls) ==
    IF b.memory = "nullptr"
    THEN Result(b, <<>>, 0, ls, FALSE, TRUE)
    ELSE LET c1 == AllocCall(desired, size, protection, r1)
             c2 == AllocCall(0, size, protection, r2)
             retry == r1.addr = 0
             desired64 == IF retry THEN r2.addr ELSE r1.addr
             calls == IF retry THEN <<c1, c2>> ELSE <<c1>>
             notice == retry /\ r2.addr # 0
             ls1 == Recorded(r1, ls)
             ls2 == IF notice THEN STATUS_IMAGE_NOT_AT_BASE
                    ELSE IF retry THEN Recorded(r2, ls1) ELSE ls1
         IN  IF desired64 # 0
             THEN LET f == Free(b, 0, o, ls2)
                  IN  Result(Rebind(f.block, desired64, size, protection),
                             calls \o f.calls, desired64, f.lastStatus, notice, FALSE)
             ELSE Result(b, calls, desired64, ls2, notice, FALSE)

-----------------------------------------------------------------------------
(* MemBlock::Protect, Read, Write *)

ProtectCall(b, addr, size, prot, status) ==
    IF b.physical
    THEN Call("PrivilegedChannel", "protect", "pid", addr, size, prot, status, 0)
    ELSE Call("MemoryAccessor", "protect", "none", addr, size, prot, status, 0)

Protect(b, protection, offset, size, bDEP, o, ls) ==
    IF b.memory = "nullptr"
    THEN Result(b, <<>>, 0, ls, FALSE, TRUE)
    ELSE LET prot == CastProtection(protection, bDEP)
             size1 == IF size = 0 THEN b.size ELSE size
         IN  Result(b, <<ProtectCall(b, b.ptr + offset, size1, prot, o.status)>>,
                    o.status, Recorded(o, ls), FALSE, FALSE)

\* Read that forgets the offset
ReadAtBase(b, offset, size, handleHoles, o, ls) ==
    IF b.memory = "nullptr"
    THEN Result(b, <<>>, 0, ls, FALSE, TRUE)
    ELSE Result(b, <<Call("MemoryAccessor", "read", "none", b.ptr, size,
                          handleHoles, o.status, 0)>>,
                o.status, Recorded(o, ls), FALSE, FALSE)

\* handleHoles is 1 for true and 0 for false
Read(b, offset, size, handleHoles, o, ls) ==
    IF b.memory = "nullptr"
    THEN Result(b, <<>>, 0, ls, FALSE, TRUE)
    ELSE Result(b, <<Call("MemoryAccessor", "read", "none", b.ptr + offset, size,
                          handleHoles, o.status, 0)>>,
                o.status, Recorded(o, ls), FALSE, FALSE)

Write(b, offset, size, o, ls) ==
    IF b.memory = "nullptr"
    THEN Result(b, <<>>, 0, ls, FALSE, TRUE)
    ELSE Result(b, <<Call("MemoryAccessor", "write", "none", b.ptr + offset, size,
                          0, o.status, 0)>>,
                o.status, Recorded(o, ls), FALSE, FALSE)

-----------------------------------------------------------------------------
(* MemBlock::Reset *)

\* Cleared without the assignment to _own
ClearedKeepsOwn(b) ==
    [b EXCEPT !.ptr = 0, !.size = 0, !.protection = 0, !.memory = "nullptr"]

\* the fields Reset assigns after the Free
Cleared(b) ==
    [b EXCEPT !.ptr = 0, !.size = 0, !.protection = 0, !.own = FALSE,
              !.memory = "nullptr"]

Reset(b, o, ls) ==
    LET f == Free(b, 0, o, ls)
    IN  Result(Cleared(f.block), f.calls, 0, f.lastStatus, FALSE, f.crash)

-----------------------------------------------------------------------------
(* The state machine *)

Init ==
    /\ block = DefaultBlock
    /\ life = "none"
    /\ lastStatus = STATUS_SUCCESS
    /\ last = [op |-> "none", arg |-> NoArg, pre |-> DefaultBlock, calls |-> <<>>,
               ret |-> 0, notice |-> FALSE, afterFullFree |-> FALSE,
               twice |-> FALSE]
    /\ resetDone = FALSE
    /\ released = {}

\* the operation recorded in l was a Free(0) that released the region of a
\* non-empty block
FullFree(l) ==
    /\ l.op = "Free"
    /\ l.arg.size = 0
    /\ l.pre.ptr # 0
    /\ l.ret = STATUS_SUCCESS
    /\ l.calls # <<>>
    /\ NT_SUCCESS(l.calls[1].status)

\* the released addresses after call c
ReleasedStep(rel, c) ==
    IF c.fn = "allocate" /\ c.out # 0 THEN rel \ {c.out}
    ELSE IF c.fn = "free" /\ c.arg = MEM_RELEASE /\ NT_SUCCESS(c.status)
         THEN rel \cup {c.addr}
         ELSE rel

\* the released addresses after the calls of an operation, in their order
RECURSIVE ReleasedAfter(_, _)
ReleasedAfter(rel, calls) ==
    IF calls = <<>> THEN rel
    ELSE ReleasedAfter(ReleasedStep(rel, Head(calls)), Tail(calls))

\* one of the calls passes a released address to a free of type MEM_RELEASE
RECURSIVE PassedTwice(_, _)
PassedTwice(rel, calls) ==
    IF calls = <<>> THEN FALSE
    ELSE \/ (Head(calls).fn = "free" /\ Head(calls).arg = MEM_RELEASE
            /\ Head(calls).addr \in rel)
         \/ PassedTwice(ReleasedStep(rel, Head(calls)), Tail(calls))

\* the record of an operation that has run; afterFullFree tells that it
\* directly followed a successful full Free, twice that it passed a released
\* address to a release again
Done(op, arg, r) ==
    /\ last' = [op |-> op, arg |-> arg, pre |-> block, calls |-> r.calls,
                ret |-> r.ret, notice |-> r.notice,
                afterFullFree |-> FullFree(last),
                twice |-> PassedTwice(released, r.calls)]
    /\ released' = ReleasedAfter(released, r.calls) \cap {r.block.ptr}
    /\ lastStatus' = r.lastStatus
    /\ block' = r.block

\* an operation of the live block
Apply(op, arg, r) ==
    /\ life = "live"
    /\ Done(op, arg, r)
    /\ life' = IF r.crash THEN "crashed" ELSE "live"

\* MemBlock(mem, ptr, size, prot, own, physical)
Construct ==
    \E ptr \in Bases, size \in Sizes, prot \in Protections, own \in BOOLEAN,
       physical \in BOOLEAN :
        /\ life = "none"
        /\ Done("Construct", Arg(size, ptr, prot),
                Result(MemBlock(ptr, size, prot, own, physical, "process"),
                       <<>>, 0, lastStatus, FALSE, FALSE))
        /\ life' = "live"
        /\ UNCHANGED resetDone

\* MemBlock()
DefaultConstruct ==
    /\ life = "none"
    /\ Done("DefaultConstruct", NoArg,
            Result(DefaultBlock, <<>>, 0, lastStatus, FALSE, FALSE))
    /\ life' = "live"
    /\ UNCHANGED resetDone

\* MemBlock(mem, ptr, own)
Open ==
    \E ptr \in Bases, own \in BOOLEAN, q \in QueryOutcomes :
        /\ life = "none"
        /\ Done("Open", Arg(0, ptr, 0),
                Result(MemBlock(ptr, q.RegionSize, q.Protect, own, FALSE, "process"),
                       <<Call("MemoryAccessor", "query", "none", ptr, 0, 0, q.status, 0)>>,
                       0, lastStatus, FALSE, FALSE))
        /\ life' = "live"
        /\ UNCHANGED resetDone

\* the partial Free calls of the model keep the block within MaxWalkPages pages
\* of its base
Walk(b, size) ==
    (b.ptr % Granularity) + Align(size, PageSize) <= MaxWalkPages * PageSize

\* block.Free(size)
FreeOp ==
    \E size \in FreeSizes, o \in Outcomes :
        /\ Asked(block, o)
        /\ Walk(block, size)
        /\ Apply("Free", Arg(size, 0, 0), Free(block, size, o, lastStatus))
        /\ UNCHANGED resetDone

\* ~MemBlock()
Destroy ==
    \E o \in Outcomes :
        /\ life = "live"
        /\ block.own \/ o = NoCall
        /\ Asked(block, o)
        /\ LET r == Destructor(block, o, lastStatus)
           IN  /\ Done("Destroy", NoArg, r)
               /\ life' = IF r.crash THEN "crashed" ELSE "dead"
        /\ UNCHANGED resetDone

\* MemBlock::Allocate(process, size, desired, protection)
AllocateOp ==
    \E size \in Sizes, desired \in Bases \cup {0}, protection \in Protections,
       bDEP \in BOOLEAN :
      \E r1 \in AllocOutcomes(desired), r2 \in AllocOutcomes(0) \cup {NoAlloc} :
        /\ life = "none"
        /\ (r1.status = STATUS_SUCCESS) = (r2 = NoAlloc)
        /\ Done("Allocate", Arg(size, desired, protection),
                Allocate(size, desired, protection, bDEP, r1, r2, lastStatus))
        /\ life' = "live"
        /\ UNCHANGED resetDone

\* block.Realloc(size, desired, protection)
ReallocOp ==
    \E size \in Sizes, desired \in Bases \cup {0}, protection \in Protections,
       o \in Outcomes :
      \E r1 \in AllocOutcomes(desired) \cup {NoAlloc}, r2 \in AllocOutcomes(0) \cup {NoAlloc} :
        /\ (r1 = NoAlloc) = (block.memory = "nullptr")
        /\ (r2 = NoAlloc) = (r1 = NoAlloc \/ r1.addr # 0)
        /\ (r1.addr # 0 \/ r2.addr # 0) \/ o = NoCall
        /\ Asked(block, o)
        /\ Apply("Realloc", Arg(size, desired, protection),
                 Realloc(block, size, desired, protection, r1, r2, o, lastStatus))
        /\ UNCHANGED resetDone

\* block.Protect(protection, offset, size)
ProtectOp ==
    \E protection \in Protections, range \in Ranges, bDEP \in BOOLEAN,
       o \in Answers :
        /\ block.memory = "nullptr" => (o = NoCall /\ bDEP)
        /\ Apply("Protect", Arg(range[2], range[1], protection),
                 Protect(block, protection, range[1], range[2], bDEP, o, lastStatus))
        /\ UNCHANGED resetDone

\* block.Read(offset, size, pResult, handleHoles)
ReadOp ==
    \E offset \in Offsets, handleHoles \in {0, 1}, o \in Answers :
        /\ block.memory = "nullptr" => o = NoCall
        /\ Apply("Read", Arg(IoSize, offset, handleHoles),
                 Read(block, offset, IoSize, handleHoles, o, lastStatus))
        /\ UNCHANGED resetDone

\* block.Write(offset, size, pData)
WriteOp ==
    \E offset \in Offsets, o \in Answers :
        /\ block.memory = "nullptr" => o = NoCall
        /\ Apply("Write", Arg(IoSize, offset, 0),
                 Write(block, offset, IoSize, o, lastStatus))
        /\ UNCHANGED resetDone

\* block.Reset()
ResetOp ==
    \E o \in Outcomes :
        /\ Asked(block, o)
        /\ Apply("Reset", NoArg, Reset(block, o, lastStatus))
        /\ resetDone' = TRUE

Next ==
    \/ Construct
    \/ DefaultConstruct
    \/ Open
    \/ AllocateOp
    \/ FreeOp
    \/ ReallocOp
    \/ ProtectOp
    \/ ReadOp
    \/ WriteOp
    \/ ResetOp
    \/ Destroy

Spec == Init /\ [][Next]_vars

-----------------------------------------------------------------------------
(* Vocabulary of the properties *)

\* the canonical empty state of the descriptor
Empty(b) == b.ptr = 0 /\ b.size = 0 /\ b.protection = 0

\* k rounded up to a multiple of the page size
RoundUp(k) == ((k + PageSize - 1) \div PageSize) * PageSize

\* the last operation sent a free call and the collaborator reported success
Released == last.calls # <<>> /\ last.calls[Len(last.calls)].fn = "free"
            /\ NT_SUCCESS(last.calls[Len(last.calls)].status)

\* the free calls among the calls of the last operation
FreeCalls == SelectSeq(last.calls, LAMBDA c : c.fn = "free")

\* the collaborator a block's backing selects
Backing(b) == IF b.physical THEN "PrivilegedChannel" ELSE "MemoryAccessor"

\* c releases the whole region at addr
FullRelease(c, addr) ==
    c.fn = "free" /\ c.addr = addr /\ c.size = 0 /\ c.arg = MEM_RELEASE

-----------------------------------------------------------------------------
(* C1 - C5 *)

\* C1: after Allocate (also one whose two attempts both failed), Free, Realloc
\* or Reset, a block with address 0 has size 0 and protection 0.
C1_EmptyState ==
    (last.op \in {"Allocate", "Free", "Realloc", "Reset"} /\ block.ptr = 0)
        => (block.size = 0 /\ block.protection = 0)

\* C2: a successful Free(k) with 0 < k < S on a block at A of size S leaves
\* address A + round_up(k), size S - round_up(k), and 0 < size < S: the
\* unsigned size does not wrap around.
C2_ShrinkingWindow ==
    (last.op = "Free" /\ Released
     /\ 0 < last.arg.size /\ last.arg.size < last.pre.size)
        => /\ block.ptr = last.pre.ptr + RoundUp(last.arg.size)
           /\ block.size = last.pre.size - RoundUp(last.arg.size)
           /\ 0 < block.size
           /\ block.size < last.pre.size

\* C3: a successful partial Free(k), k > 0, that consumes what is left of the
\* region (the remaining size reaches 0 or would go below 0) leaves the block
\* empty: address 0, size 0, protection 0.
C3_WalkToEmpty ==
    (last.op = "Free" /\ Released
     /\ 0 < last.arg.size /\ RoundUp(last.arg.size) >= last.pre.size)
        => Empty(block)

\* C4: after a Free(0) whose release succeeded the block is empty; a Free(0)
\* directly after it sends no call, returns success and leaves the block
\* empty; and Free on any block with address 0 sends no call, returns success
\* and changes nothing.
C4_FullFreeIdempotent ==
    /\ FullFree(last) => Empty(block)
    /\ (last.op = "Free" /\ last.arg.size = 0 /\ last.afterFullFree)
          => (last.calls = <<>> /\ last.ret = STATUS_SUCCESS /\ Empty(block))
    /\ (last.op = "Free" /\ last.pre.ptr = 0)
          => (last.calls = <<>> /\ last.ret = STATUS_SUCCESS /\ block = last.pre)

\* a Free(0) has directly followed a Free(0) that released the region
C4_Witness ==
    last.op = "Free" /\ last.arg.size = 0 /\ last.afterFullFree

\* C5: destroying an owning block with address # 0 sends exactly one call, a
\* release of the whole region at the block's address to the collaborator of
\* its backing, whatever happened to the block before; destroying a block
\* that does not own sends no call.
C5_OwnershipGating ==
    last.op = "Destroy" =>
        /\ (last.pre.own /\ last.pre.ptr # 0)
              => /\ Len(last.calls) = 1
                 /\ FullRelease(last.calls[1], last.pre.ptr)
                 /\ last.calls[1].to = Backing(last.pre)
        /\ ~last.pre.own => last.calls = <<>>

\* an owning block that a partial Free has moved was destroyed
C5_Witness ==
    /\ last.op = "Destroy"
    /\ last.pre.own
    /\ last.pre.ptr % Granularity # 0
    /\ Len(last.calls) = 1

-----------------------------------------------------------------------------
(* C6 - C10 *)

\* the last operation was an Allocate whose first request failed and whose
\* retry at address 0 succeeded
Fallback ==
    /\ last.op = "Allocate"
    /\ Len(last.calls) = 2
    /\ last.calls[1].status # STATUS_SUCCESS
    /\ last.calls[2].addr = 0
    /\ last.calls[2].status = STATUS_SUCCESS

\* what Allocate returns after the fallback: a valid, owning, Virtual block at
\* the address the retry chose, with the relocation notice in the last status
Relocated ==
    /\ block.ptr # 0
    /\ block.own
    /\ ~block.physical
    /\ block.ptr = last.calls[2].out
    /\ last.notice
    /\ lastStatus = STATUS_IMAGE_NOT_AT_BASE

\* C6 as claimed: when the request at a non-zero desiredAddress fails and the
\* retry at 0 succeeds, Allocate returns a valid, owning, Virtual block at the
\* retry's address and records the relocation notice; and the notice is
\* recorded only in that case.
C6_FallbackOnlyNonZero ==
    last.op = "Allocate" =>
        /\ (Fallback /\ last.arg.addr # 0) => Relocated
        /\ last.notice => (Fallback /\ last.arg.addr # 0)

\* C6 amended: whenever the first request fails and the retry at 0 succeeds,
\* whether desiredAddress is 0 or not, Allocate returns a valid, owning,
\* Virtual block at the retry's address and records the relocation notice; the
\* notice is recorded in no other case.
C6_Fallback ==
    last.op = "Allocate" =>
        /\ Fallback => Relocated
        /\ (last.notice \/ lastStatus = STATUS_IMAGE_NOT_AT_BASE) => Fallback

\* the request at a non-zero desiredAddress failed and the retry succeeded
C6_Witness ==
    Fallback /\ last.arg.addr # 0 /\ block.ptr # last.arg.addr

\* C7: after Reset, whatever the block was and whether or not the Free in it
\* succeeded, the block is empty and does not own, Reset sent at most one call,
\* a free; and destroying the block afterwards sends no call.
C7_ResetDisowns ==
    /\ last.op = "Reset"
          => /\ Empty(block)
             /\ ~block.own
             /\ Len(last.calls) <= 1
             /\ FreeCalls = last.calls
    /\ resetDone => ~block.own
    /\ (last.op = "Destroy" /\ resetDone) => last.calls = <<>>

\* a block was destroyed after a Reset
C7_Witness ==
    last.op = "Destroy" /\ resetDone

\* C8: every protect and free call of a Physical block goes to the
\* PrivilegedChannel with the process id, every one of a Virtual block to the
\* MemoryAccessor, and no operation changes the backing of the block.
C8_BackingDispatch ==
    /\ \A i \in 1..Len(last.calls) :
          last.calls[i].fn \in {"free", "protect"}
              => IF last.pre.physical
                 THEN last.calls[i].to = "PrivilegedChannel" /\ last.calls[i].pid = "pid"
                 ELSE last.calls[i].to = "MemoryAccessor"
    /\ last.op \in {"Free", "Realloc", "Protect", "Read", "Write", "Reset", "Destroy"}
          => block.physical = last.pre.physical

\* a Physical block has sent a free call
C8_Witness ==
    last.pre.physical /\ FreeCalls # <<>>

\* C9: when the collaborator returns a non-success status s for the call of a
\* Free, the fields of the block are unchanged and Free returns s.
C9_FreeFailure ==
    (last.op = "Free" /\ last.calls # <<>> /\ ~NT_SUCCESS(last.calls[1].status))
        => /\ block = last.pre
           /\ last.ret = last.calls[1].status

\* C10: a Realloc neither of whose requests obtained memory returns 0, sends
\* no free call and leaves address, size, protection and own as they were.
C10_ReallocFailure ==
    (/\ last.op = "Realloc"
     /\ last.calls # <<>>
     /\ \A i \in 1..Len(last.calls) :
           last.calls[i].fn = "allocate" => last.calls[i].out = 0)
        => /\ last.ret = 0
           /\ FreeCalls = <<>>
           /\ block = last.pre

\* a Realloc of a block that holds a region failed at the desired address and
\* at address 0
C10_Witness ==
    /\ last.op = "Realloc"
    /\ last.pre.ptr # 0
    /\ Len(last.calls) = 2
    /\ last.calls[1].out = 0
    /\ last.calls[2].out = 0

-----------------------------------------------------------------------------
(* C11 - C19 *)

\* C11: whenever Realloc returns a non-zero address, the region the block held
\* before has been fully released, by a call sent after the allocation
\* requests and for the old address, and afterwards address is the returned
\* address, size the requested size and protection the requested protection.
C11_FreeOldThenRebind ==
    (last.op = "Realloc" /\ last.ret # 0)
        => /\ last.pre.ptr # 0
                => /\ FullRelease(last.calls[Len(last.calls)], last.pre.ptr)
                   /\ NT_SUCCESS(last.calls[Len(last.calls)].status)
                   /\ Len(FreeCalls) = 1
           /\ block.ptr = last.ret
           /\ block.size = last.arg.size
           /\ block.protection = last.arg.protection

\* C12: for both backings, a Free whose rounded size is 0 calls the
\* collaborator's free with mode Release for the whole region, and a Free
\* whose rounded size is > 0 calls it with mode Decommit for exactly the
\* leading rounded-size bytes at the block's current address.
C12_FreeMode ==
    (last.op = "Free" /\ last.calls # <<>>)
        => /\ Len(last.calls) = 1
           /\ last.calls[1].fn = "free"
           /\ last.calls[1].to = Backing(last.pre)
           /\ last.calls[1].addr = last.pre.ptr
           /\ last.calls[1].size = RoundUp(last.arg.size)
           /\ last.calls[1].arg = IF RoundUp(last.arg.size) = 0
                                  THEN MEM_RELEASE ELSE MEM_DECOMMIT

\* C13: after a Protect call that covers the whole block (offset 0, size 0 or
\* the block's size) and for which the collaborator returned success, the
\* protection field of the block is the requested logical protection.
C13_ProtectUpdates ==
    (/\ last.op = "Protect"
     /\ last.calls # <<>>
     /\ last.arg.addr = 0
     /\ last.arg.size \in {0, last.pre.size}
     /\ NT_SUCCESS(last.calls[1].status))
        => block.protection = last.arg.protection

\* the allocate calls among the calls of the last operation
AllocCalls == SelectSeq(last.calls, LAMBDA c : c.fn = "allocate")

\* C14: Allocate and Realloc send at most two allocate requests, the first at
\* the desired address, the second exactly when the first obtained nothing
\* and always at address 0; if both fail the resulting address is 0 (the block
\* of Allocate is invalid, Realloc returns 0).  Protect, Read and Write of a
\* block that has its accessor send exactly one call and Free at most one,
\* whatever status comes back.
C14_RetryPolicy ==
    /\ (last.op = "Allocate" \/ (last.op = "Realloc" /\ last.pre.memory = "process"))
          => /\ Len(AllocCalls) \in {1, 2}
             /\ AllocCalls[1].addr = last.arg.addr
             /\ (Len(AllocCalls) = 2) = (AllocCalls[1].out = 0)
             /\ (Len(AllocCalls) = 2) = (AllocCalls[1].status # STATUS_SUCCESS)
             /\ Len(AllocCalls) = 2 => AllocCalls[2].addr = 0
             /\ (Len(AllocCalls) = 2 /\ AllocCalls[2].out = 0)
                   => IF last.op = "Allocate" THEN block.ptr = 0 ELSE last.ret = 0
    /\ (last.op \in {"Protect", "Read", "Write"} /\ last.pre.memory = "process")
          => Len(last.calls) = 1
    /\ last.op = "Free" => Len(last.calls) <= 1

\* both requests of an Allocate at a desired address failed
C14_Witness ==
    /\ last.op = "Allocate"
    /\ last.arg.addr # 0
    /\ Len(last.calls) = 2
    /\ last.calls[2].out = 0
    /\ block.ptr = 0

\* the answer of the native subsystem that call c of the last operation records
Answer(c) == [status |-> c.status, addr |-> c.out, rec |-> TRUE]

\* what Allocate does with the arguments of the last operation when the
\* process has DEP mode bDEP and the native subsystem answers as it did
AllocateLikewise(bDEP) ==
    Allocate(last.arg.size, last.arg.addr, last.arg.protection, bDEP,
             Answer(last.calls[1]),
             IF Len(last.calls) > 1 /\ last.calls[2].fn = "allocate"
             THEN Answer(last.calls[2]) ELSE NoAlloc,
             STATUS_SUCCESS)

\* C15: for every behaviour of the accessor, DEP mode and arguments, Realloc
\* on an empty block sends the allocate requests Allocate sends (address,
\* size, and the native protection translated from the logical one with the
\* DEP flag) and ends with the address, size, protection and relocation
\* notice of the block Allocate returns.
C15_ReallocAsAllocate ==
    (last.op = "Realloc" /\ last.pre.ptr = 0 /\ last.calls # <<>>)
        => \A bDEP \in BOOLEAN :
              /\ last.calls = AllocateLikewise(bDEP).calls
              /\ block.ptr = AllocateLikewise(bDEP).block.ptr
              /\ block.size = AllocateLikewise(bDEP).block.size
              /\ block.protection = AllocateLikewise(bDEP).block.protection
              /\ last.notice = AllocateLikewise(bDEP).notice

\* the last operation was a Protect that failed or whose range is smaller
\* than the whole block
PartialOrFailedProtect ==
    /\ last.op = "Protect"
    /\ \/ last.arg.addr # 0
       \/ (last.arg.size # 0 /\ last.arg.size < last.pre.size)
       \/ (last.calls # <<>> /\ ~NT_SUCCESS(last.calls[1].status))

\* C16: Read, Write, and a Protect that fails or targets less than the whole
\* block leave address, size, protection, own and backing as they were,
\* whatever status comes back; Read and Write of a block that has its
\* accessor forward exactly (address + offset, size) to the accessor and
\* return its status.
C16_Frame ==
    /\ (last.op \in {"Read", "Write"} \/ PartialOrFailedProtect)
          => block = last.pre
    /\ (last.op \in {"Read", "Write"} /\ last.pre.memory = "process")
          => /\ Len(last.calls) = 1
             /\ last.calls[1].to = "MemoryAccessor"
             /\ last.calls[1].fn = (IF last.op = "Read" THEN "read" ELSE "write")
             /\ last.calls[1].addr = last.pre.ptr + last.arg.addr
             /\ last.calls[1].size = last.arg.size
             /\ last.ret = last.calls[1].status

\* a Read at a non-zero offset failed
C16_Witness ==
    /\ last.op = "Read"
    /\ last.arg.addr # 0
    /\ last.calls # <<>>
    /\ ~NT_SUCCESS(last.ret)

\* the last operation sent a free call that the collaborator refused
ReleaseFailed ==
    FreeCalls # <<>> /\ ~NT_SUCCESS(FreeCalls[1].status)

\* C17: Reset and a successful Realloc do not drop the block's reference to a
\* held region whose release returned a non-success status: the block still
\* describes that region afterwards.
C17_NoSilentLeak ==
    (/\ last.op \in {"Reset", "Realloc"}
     /\ last.pre.ptr # 0
     /\ ReleaseFailed)
        => /\ block.ptr = last.pre.ptr
           /\ block.size = last.pre.size

\* C18: over any sequence of operations on one block, no address is passed to
\* a free call of type Release again after such a call released it, unless an
\* allocation has returned that address in between; and no free call is sent
\* while the address of the block is 0.
C18_NoDoubleRelease ==
    /\ ~last.twice
    /\ FreeCalls # <<>> => last.pre.ptr # 0

\* C19: whenever Realloc, Protect, Read, Write or a Free of a non-empty block
\* is invoked, the accessor reference of the block is not null; so a
\* default-constructed block and a block after Reset can be rebound with
\* Realloc.
C19_AccessorPresent ==
    (\/ last.op \in {"Realloc", "Protect", "Read", "Write"}
     \/ (last.op = "Free" /\ last.pre.ptr # 0))
        => (last.pre.memory = "process" /\ life # "crashed")

====
